---- MODULE Spec2Model ----
(***************************************************************************)
(* Stock tracker (src/main.rs): the shared store of per-symbol StockData,  *)
(* the four worker threads that write it (the two bootstrap threads of     *)
(* initial_fetch, the quote loop of start_update_worker, the history loop  *)
(* of start_24h_update_worker) and the render loop of main that reads it.  *)
(*                                                                         *)
(* The store is a Mutex<HashMap<String, StockData>>.  Every statement      *)
(* group inside a critical section is one step of the thread that holds    *)
(* the mutex, so that the intermediate states of an update exist in the    *)
(* model and mutual exclusion is what hides them from the other threads.   *)
(*                                                                         *)
(* Prices are f32 in the source.  The model draws them from small sets of  *)
(* integers whose quotients are exact in f32 (divisors 1 and 2), so that   *)
(* integer arithmetic computes what the f32 arithmetic computes.           *)
(***************************************************************************)
EXTENDS Integers, Sequences, FiniteSets, TLC

\* ------------------------------------------------------------------ bounds
\* The sliding window of the quote loop: `s.prices.len() > 60` in the source.
\* The model scales the 60 down; every formula is stated over WindowSize.
WindowSize == 2

\* Utc::now() returns values from 0 to MaxClock.  The quote loop reads it
\* after each sleep, which takes time: a pass starts only while the clock can
\* still advance, so MaxClock also bounds the number of passes.
MaxClock == 2

\* The most symbols that can be ticked at once: 8 in the source. The model
\* scales it down so that a list of three symbols can exceed it.
MAX_SELECTED == 2

\* --------------------------------------------------------------- constants
INFINITY == 1000
NEG_INFINITY == -1000

Writers == {"bq", "bh", "ql", "hl"}

Threads == Writers \cup {"ui"}

\* ------------------------------------------------------------ the fetchers
Err == [ok |-> FALSE]

\* The `meta` objects the upstream may answer with for a symbol.
QuoteResponses(sym) ==
  IF sym = "AAPL"
  THEN { [regularMarketPrice |-> 1, chartPreviousClose |-> 1],
         [regularMarketPrice |-> 2, chartPreviousClose |-> 1] }
  ELSE { [regularMarketPrice |-> 4, chartPreviousClose |-> 2] }

\* fetch_stock_data: the price and its change against the previous close.
ParseQuote(meta) ==
  LET current_price == meta.regularMarketPrice
      prev_close    == meta.chartPreviousClose
  IN  [ok |-> TRUE,
       price |-> current_price,
       change |-> IF prev_close # 0
                  THEN ((current_price - prev_close) * 100) \div prev_close
                  ELSE 0]

FetchStockData(sym) == {Err} \cup {ParseQuote(m) : m \in QuoteResponses(sym)}

\* A JSON value of the "timestamp" or "close" array: a number or null.
JsonNull == [null |-> TRUE]

JsonNum(n) == [null |-> FALSE, n |-> n]

\* The chart bodies the history endpoint may answer with: the two arrays may
\* differ in length, and either may hold nulls.
HistoryResponses(sym) ==
  IF sym = "AAPL"
  THEN { [timestamp |-> << >>, close |-> << >>],
         [timestamp |-> <<JsonNum(10), JsonNum(11), JsonNum(12)>>,
          close     |-> <<JsonNum(0), JsonNum(1)>>],
         [timestamp |-> <<JsonNum(20), JsonNum(15), JsonNull, JsonNum(21)>>,
          close     |-> <<JsonNum(2), JsonNull, JsonNum(3), JsonNum(1)>>] }
  ELSE { [timestamp |-> <<JsonNull>>, close |-> <<JsonNum(2)>>],
         [timestamp |-> <<JsonNum(10), JsonNum(11)>>,
          close     |-> <<JsonNum(2), JsonNum(4)>>] }

\* Mutant of ParseChart: the time is pushed as soon as it is read, the price
\* only if there is one.
RECURSIVE ParseChartTimesFirst(_, _, _)
ParseChartTimesFirst(raw, i, acc) ==
  IF i > Len(raw.timestamp)
  THEN acc
  ELSE IF raw.timestamp[i].null
       THEN ParseChartTimesFirst(raw, i + 1, acc)
       ELSE IF i <= Len(raw.close) /\ ~raw.close[i].null
            THEN ParseChartTimesFirst(raw, i + 1,
                   [prices |-> Append(acc.prices, raw.close[i].n),
                    times |-> Append(acc.times, raw.timestamp[i].n)])
            ELSE ParseChartTimesFirst(raw, i + 1,
                   [prices |-> acc.prices,
                    times |-> Append(acc.times, raw.timestamp[i].n)])

\* for (i, ts) in timestamps.iter().enumerate(): entry i is taken when ts is
\* an integer, closes has an entry i and that entry is a number; then the
\* time and the price are pushed, one after the other.
RECURSIVE ParseChart(_, _, _)
ParseChart(raw, i, acc) ==
  IF i > Len(raw.timestamp)
  THEN acc
  ELSE IF /\ ~raw.timestamp[i].null
          /\ i <= Len(raw.close)
          /\ ~raw.close[i].null
       THEN ParseChart(raw, i + 1,
              [prices |-> Append(acc.prices, raw.close[i].n),
               times |-> Append(acc.times, raw.timestamp[i].n)])
       ELSE ParseChart(raw, i + 1, acc)

\* The series fetch_24h_historical_data may return.
HistorySeries(sym) ==
  {ParseChart(raw, 1, [prices |-> << >>, times |-> << >>]) : raw \in HistoryResponses(sym)}

Fetch24hHistoricalData(sym) ==
  {Err} \cup {[ok |-> TRUE, prices |-> h.prices, times |-> h.times] : h \in HistorySeries(sym)}

\* ------------------------------------------------------------- f32 helpers
F32Min(a, b) == IF b < a THEN b ELSE a

F32Max(a, b) == IF b > a THEN b ELSE a

RECURSIVE FoldMin(_, _)
FoldMin(acc, seq) ==
  IF seq = << >> THEN acc ELSE FoldMin(F32Min(acc, Head(seq)), Tail(seq))

RECURSIVE FoldMax(_, _)
FoldMax(acc, seq) ==
  IF seq = << >> THEN acc ELSE FoldMax(F32Max(acc, Head(seq)), Tail(seq))

\* ((current - p24) / p24) * 100.0
Change24h(current_price, p24) == ((current_price - p24) * 100) \div p24

\* --------------------------------------------------------------- the state
VARIABLES
  symbols,      \* the tracked list main hands to every worker
  selected_symbols, \* app.selected_symbols: the symbols ticked in the list
  stocks,       \* the HashMap behind app.stocks
  storeLock,    \* holder of the stocks mutex, or "free"
  last_update,  \* the cell behind app.last_update
  clock,        \* the latest value Utc::now() has returned
  pc,           \* position of each thread
  idx,          \* position of each worker in its `for symbol in &symbols`
  res,          \* the fetch result a worker holds
  now,          \* the `now` local of the quote loop
  applied       \* the update of the critical section entered last

vars == <<symbols, selected_symbols, stocks, storeLock, last_update, clock, pc, idx, res, now, applied>>

\* Mutant of NewStockData: the entry does not carry the symbol it is keyed by.
NewStockDataUnnamed(sym) ==
  [symbol |-> "",
   prices |-> << >>,
   timestamps |-> << >>,
   prices_24h_ago |-> << >>,
   timestamps_24h_ago |-> << >>,
   current_price |-> 0,
   change_percent |-> 0,
   change_24h_percent |-> 0,
   current_min |-> INFINITY,
   current_max |-> NEG_INFINITY,
   h24_min |-> INFINITY,
   h24_max |-> NEG_INFINITY]

\* Mutant of NewStockData: the extrema start at zero.
NewStockDataZeroed(sym) ==
  [symbol |-> sym,
   prices |-> << >>,
   timestamps |-> << >>,
   prices_24h_ago |-> << >>,
   timestamps_24h_ago |-> << >>,
   current_price |-> 0,
   change_percent |-> 0,
   change_24h_percent |-> 0,
   current_min |-> 0,
   current_max |-> 0,
   h24_min |-> 0,
   h24_max |-> 0]

\* The StockData main inserts for every symbol.
NewStockData(sym) ==
  [symbol |-> sym,
   prices |-> << >>,
   timestamps |-> << >>,
   prices_24h_ago |-> << >>,
   timestamps_24h_ago |-> << >>,
   current_price |-> 0,
   change_percent |-> 0,
   change_24h_percent |-> 0,
   current_min |-> INFINITY,
   current_max |-> NEG_INFINITY,
   h24_min |-> INFINITY,
   h24_max |-> NEG_INFINITY]

\* Nothing applied yet; `done` collects <<symbol, writer>> for every critical
\* section entered, `hl_slept` tells whether the sleep of the history loop
\* has returned at least once.
NoUpdate == [op |-> "none", done |-> {}, hl_slept |-> FALSE]

\* The workers in `started` just spawned with `list`, and the render loop
\* about to run, over a store filled with one empty StockData for each entry
\* of `keys`. A worker that was not spawned never takes a step.
Spawned(keys, list, started) ==
  /\ symbols = list
  /\ selected_symbols = {}
  /\ stocks = [sym \in {keys[i] : i \in 1..Len(keys)} |-> NewStockData(sym)]
  /\ storeLock = "free"
  /\ last_update = 0
  /\ clock = 0
  /\ pc = [t \in Threads |->
             CASE t \in Writers \ started -> "unspawned"
               [] t = "bq" -> "fetch"
               [] t = "bh" -> "sleep"
               [] t = "ql" -> "sleep"
               [] t = "hl" -> "fetch"
               [] t = "ui" -> "frame"]
  /\ idx = [t \in Writers |-> 1]
  /\ res = [t \in Writers |-> Err]
  /\ now = 0
  /\ applied = NoUpdate

\* main, up to the spawning of the workers: the tracked list (27 entries in
\* the source) is what fills the store and what every worker is handed.
Startup(list) == Spawned(list, list, Writers)

Init == Startup(<<"AAPL">>)

\* ------------------------------------------- statements of the quote update
\* Mutant of PushPrice: the new price goes to the front of the window.
PushPriceFirst(s, price) == [s EXCEPT !.prices = <<price>> \o @]

\* s.prices.push(price)
PushPrice(s, price) == [s EXCEPT !.prices = Append(@, price)]

\* s.timestamps.push(..)
PushTimestamp(s, t) == [s EXCEPT !.timestamps = Append(@, t)]

\* Mutant of Evict: the timestamp of the evicted price stays.
EvictPricesOnly(s) ==
  IF Len(s.prices) > WindowSize THEN [s EXCEPT !.prices = Tail(@)] ELSE s

\* Mutant of Evict: the newest pair is dropped instead of the oldest.
EvictNewest(s) ==
  IF Len(s.prices) > WindowSize
  THEN [s EXCEPT !.prices = SubSeq(@, 1, Len(@) - 1),
                 !.timestamps = SubSeq(@, 1, Len(@) - 1)]
  ELSE s

\* if s.prices.len() > 60 { s.prices.remove(0); s.timestamps.remove(0); }
Evict(s) ==
  IF Len(s.prices) > WindowSize
  THEN [s EXCEPT !.prices = Tail(@), !.timestamps = Tail(@)]
  ELSE s

\* Mutant of SetCurrent: the change is not stored.
SetCurrentPriceOnly(s, price, change) == [s EXCEPT !.current_price = price]

\* s.current_price = price; s.change_percent = change;
SetCurrent(s, price, change) ==
  [s EXCEPT !.current_price = price, !.change_percent = change]

\* Mutant of RecomputeCurrentExtrema: the extrema are widened by the newest
\* price and never recomputed over the window.
RecomputeCurrentExtremaIncremental(s) ==
  IF s.prices # << >>
  THEN [s EXCEPT !.current_min = F32Min(@, s.prices[Len(s.prices)]),
                 !.current_max = F32Max(@, s.prices[Len(s.prices)])]
  ELSE s

\* if !s.prices.is_empty() { current_min = fold(min); current_max = fold(max) }
RecomputeCurrentExtrema(s) ==
  IF s.prices # << >>
  THEN [s EXCEPT !.current_min = FoldMin(INFINITY, s.prices),
                 !.current_max = FoldMax(NEG_INFINITY, s.prices)]
  ELSE s

\* ----------------------------------------- statements of the history update
\* Mutant of ReplaceHistory: the fetched series is appended to the window.
ExtendHistory(s, prices, times) ==
  [s EXCEPT !.prices_24h_ago = @ \o prices, !.timestamps_24h_ago = @ \o times]

\* s.prices_24h_ago = prices.clone(); s.timestamps_24h_ago = timestamps;
ReplaceHistory(s, prices, times) ==
  [s EXCEPT !.prices_24h_ago = prices, !.timestamps_24h_ago = times]

\* Mutant of RecomputeH24Extrema: the extrema of the series also overwrite
\* those of the recent window.
RecomputeAllExtrema(s, prices) ==
  IF prices # << >>
  THEN [s EXCEPT !.h24_min = FoldMin(INFINITY, prices),
                 !.h24_max = FoldMax(NEG_INFINITY, prices),
                 !.current_min = FoldMin(INFINITY, prices),
                 !.current_max = FoldMax(NEG_INFINITY, prices)]
  ELSE s

\* if !prices.is_empty() { h24_min = fold(min); h24_max = fold(max); .. }
RecomputeH24Extrema(s, prices) ==
  IF prices # << >>
  THEN [s EXCEPT !.h24_min = FoldMin(INFINITY, prices),
                 !.h24_max = FoldMax(NEG_INFINITY, prices)]
  ELSE s

\* Mutant of RecomputeChange24h: the newest price of the series is the
\* reference instead of the oldest.
RecomputeChange24hFromNewest(s, prices) ==
  IF prices # << >> /\ s.current_price > 0 /\ prices[1] > 0
  THEN [s EXCEPT !.change_24h_percent =
                   Change24h(s.current_price, prices[Len(prices)])]
  ELSE s

\* Mutant of RecomputeChange24h: a change that cannot be computed is reset.
RecomputeChange24hOrZero(s, prices) ==
  IF prices # << >> /\ s.current_price > 0 /\ prices[1] > 0
  THEN [s EXCEPT !.change_24h_percent = Change24h(s.current_price, prices[1])]
  ELSE [s EXCEPT !.change_24h_percent = 0]

\* Nested in the same `if !prices.is_empty()`:
\* if s.current_price > 0.0 { let p24 = prices[0]; if p24 > 0.0 { .. } }
RecomputeChange24h(s, prices) ==
  IF prices # << >> /\ s.current_price > 0 /\ prices[1] > 0
  THEN [s EXCEPT !.change_24h_percent = Change24h(s.current_price, prices[1])]
  ELSE s

\* Mutant of LuCanLock: the mutex of last_update is handed out while held.
LuCanLockNoWait == TRUE

\* last_update.lock() returns only when nobody holds that mutex: the quote
\* loop holds it while it assigns (pc "lu"), the render loop while it reads
\* (pc "read_lu").
LuCanLock == pc["ql"] # "lu" /\ pc["ui"] # "read_lu"

\* ------------------------------------------------------------ the store lock
\* Mutant of CanLock: the store is entered without waiting for its holder.
CanLockNoWait(t) == TRUE

\* stocks.lock(): blocks until the mutex is free.
CanLock(t) == storeLock = "free"

\* Mutant of GetMut: an entry is made for a symbol the map does not hold.
GetOrInsert(map, sym) ==
  IF sym \in DOMAIN map
  THEN map
  ELSE [k \in DOMAIN map \cup {sym} |->
          IF k = sym THEN NewStockData(sym) ELSE map[k]]

\* lock.get_mut(symbol): looks the symbol up and leaves the map as it is.
GetMut(map, sym) == map

\* The symbol a worker is at in its for loop.
Sym(t) == symbols[idx[t]]

\* Mutant of AfterLoop: the periodic workers return after one pass.
AfterLoopOnce(t) == "done"

\* Where a worker goes when its for loop is over.
AfterLoop(t) ==
  CASE t = "bq" -> "done"
    [] t = "bh" -> "done"
    [] t = "ql" -> "lu_lock"
    [] t = "hl" -> "sleep"

\* The next iteration of `for symbol in &symbols`.
NextSymbol(t) ==
  /\ idx' = [idx EXCEPT ![t] = @ + 1]
  /\ res' = [res EXCEPT ![t] = Err]
  /\ pc' = [pc EXCEPT ![t] = IF idx[t] + 1 > Len(symbols) THEN AfterLoop(t) ELSE "fetch"]

\* Mutant of SkipSymbol: a failed fetch ends the pass.
AbortPass(t) ==
  /\ idx' = [idx EXCEPT ![t] = Len(symbols) + 1]
  /\ res' = [res EXCEPT ![t] = Err]
  /\ pc' = [pc EXCEPT ![t] = AfterLoop(t)]

\* `if let Ok(..) = fetch(..)` has no else: on Err the body is skipped and the
\* for loop goes on.
SkipSymbol(t) == NextSymbol(t)

\* Mutant of Unlock: the guard outlives the block.
UnlockLater(t) == storeLock' = t

\* The guard goes out of scope at the end of the `if let Ok(mut lock)` block.
Unlock(t) == storeLock' = "free"

\* `if let Some(s) = lock.get_mut(symbol)` finds nothing: the block is skipped,
\* the guard dropped, and the for loop goes on.
Untracked(t) ==
  /\ storeLock' = "free"
  /\ applied' = [op |-> "untracked", by |-> t, sym |-> Sym(t),
                 before |-> stocks, done |-> applied.done,
                 hl_slept |-> applied.hl_slept]
  /\ NextSymbol(t)

\* ---------------------------------------------------------------- fetching
\* fetch_stock_data(symbol) returns Ok or Err; an Err skips the symbol.  What
\* an Ok carries is drawn where the worker first reads it, on entering its
\* critical section (BqLock, QlLock, HistLock): no
\* other thread sees a worker's local result before that.
FetchQuote(t) ==
  /\ t \in {"bq", "ql"}
  /\ pc[t] = "fetch"
  /\ \/ /\ pc' = [pc EXCEPT ![t] = "lock"]
        /\ UNCHANGED <<symbols, selected_symbols, idx, res>>
     \/ /\ Err \in FetchStockData(Sym(t))
        /\ SkipSymbol(t)
  /\ UNCHANGED <<symbols, selected_symbols, stocks, storeLock, last_update, clock, now, applied>>

\* fetch_24h_historical_data(symbol) returns Ok or Err, in the same way.
FetchHistory(t) ==
  /\ t \in {"bh", "hl"}
  /\ pc[t] = "fetch"
  /\ \/ /\ pc' = [pc EXCEPT ![t] = "lock"]
        /\ UNCHANGED <<symbols, selected_symbols, idx, res>>
     \/ /\ Err \in Fetch24hHistoricalData(Sym(t))
        /\ SkipSymbol(t)
  /\ UNCHANGED <<symbols, selected_symbols, stocks, storeLock, last_update, clock, now, applied>>

\* The Ok results of a fetch.
OkOf(results) == {r \in results : r.ok}

\* Utc::now(): not before any value read earlier.
UtcNow == {t \in clock..(clock + 1) : t <= MaxClock}

\* ------------------------------------------------ the bootstrap quote thread
\* stocks_c.lock() and lock.get_mut(sym)
BqLock ==
  /\ pc["bq"] = "lock"
  /\ CanLock("bq")
  /\ stocks' = GetMut(stocks, Sym("bq"))
  /\ IF Sym("bq") \in DOMAIN stocks'
     THEN /\ storeLock' = "bq"
          /\ pc' = [pc EXCEPT !["bq"] = "set_current"]
          /\ \E r \in OkOf(FetchStockData(Sym("bq"))) :
               /\ res' = [res EXCEPT !["bq"] = r]
               /\ applied' = [op |-> "quote", by |-> "bq", sym |-> Sym("bq"),
                              price |-> r.price, change |-> r.change,
                              at |-> clock, before |-> stocks',
                              done |-> applied.done \cup {<<Sym("bq"), "bq">>},
                              hl_slept |-> applied.hl_slept]
          /\ idx' = idx
     ELSE Untracked("bq")
  /\ UNCHANGED <<symbols, selected_symbols, last_update, clock, now>>

BqSetCurrent ==
  /\ pc["bq"] = "set_current"
  /\ stocks' = [stocks EXCEPT ![Sym("bq")] =
                  SetCurrent(@, res["bq"].price, res["bq"].change)]
  /\ pc' = [pc EXCEPT !["bq"] = "push_price"]
  /\ UNCHANGED <<symbols, selected_symbols, storeLock, last_update, clock, idx, res, now, applied>>

BqPushPrice ==
  /\ pc["bq"] = "push_price"
  /\ stocks' = [stocks EXCEPT ![Sym("bq")] = PushPrice(@, res["bq"].price)]
  /\ pc' = [pc EXCEPT !["bq"] = "push_ts"]
  /\ UNCHANGED <<symbols, selected_symbols, storeLock, last_update, clock, idx, res, now, applied>>

\* s.timestamps.push(Utc::now()): the clock is read here.
BqPushTimestamp ==
  /\ pc["bq"] = "push_ts"
  /\ \E t \in UtcNow :
       /\ clock' = t
       /\ stocks' = [stocks EXCEPT ![Sym("bq")] = PushTimestamp(@, t)]
       /\ applied' = [applied EXCEPT !.at = t]
  /\ pc' = [pc EXCEPT !["bq"] = "minmax"]
  /\ UNCHANGED <<symbols, selected_symbols, storeLock, last_update, idx, res, now>>

BqMinMax ==
  /\ pc["bq"] = "minmax"
  /\ stocks' = [stocks EXCEPT ![Sym("bq")] = RecomputeCurrentExtrema(@)]
  /\ Unlock("bq")
  /\ NextSymbol("bq")
  /\ UNCHANGED <<symbols, selected_symbols, last_update, clock, now, applied>>

\* ------------------------------------------------------------ the quote loop
\* Mutant of QlWake: the pass stamps last_update as it starts.
QlWakeAndStamp ==
  /\ pc["ql"] = "sleep"
  /\ clock < MaxClock
  /\ clock' = clock + 1
  /\ now' = clock + 1
  /\ last_update' = clock + 1
  /\ idx' = [idx EXCEPT !["ql"] = 1]
  /\ pc' = [pc EXCEPT !["ql"] = "fetch"]
  /\ UNCHANGED <<symbols, selected_symbols, stocks, storeLock, res, applied>>

\* thread::sleep(60 s) returns; let now = Utc::now();
QlWake ==
  /\ pc["ql"] = "sleep"
  /\ clock < MaxClock
  /\ clock' = clock + 1
  /\ now' = clock + 1
  /\ idx' = [idx EXCEPT !["ql"] = 1]
  /\ pc' = [pc EXCEPT !["ql"] = "fetch"]
  /\ UNCHANGED <<symbols, selected_symbols, stocks, storeLock, last_update, res, applied>>

\* The same wake-up once the clock has reached MaxClock: the passes go on,
\* and every later reading of the time is folded onto MaxClock.
QlWakeLate ==
  /\ pc["ql"] = "sleep"
  /\ clock = MaxClock
  /\ now' = MaxClock
  /\ idx' = [idx EXCEPT !["ql"] = 1]
  /\ pc' = [pc EXCEPT !["ql"] = "fetch"]
  /\ UNCHANGED <<symbols, selected_symbols, stocks, storeLock, last_update, clock, res, applied>>

\* stocks.lock() and lock.get_mut(symbol)
QlLock ==
  /\ pc["ql"] = "lock"
  /\ CanLock("ql")
  /\ stocks' = GetMut(stocks, Sym("ql"))
  /\ IF Sym("ql") \in DOMAIN stocks'
     THEN /\ storeLock' = "ql"
          /\ pc' = [pc EXCEPT !["ql"] = "push_price"]
          /\ \E r \in OkOf(FetchStockData(Sym("ql"))) :
               /\ res' = [res EXCEPT !["ql"] = r]
               /\ applied' = [op |-> "quote", by |-> "ql", sym |-> Sym("ql"),
                              price |-> r.price, change |-> r.change,
                              at |-> now, before |-> stocks',
                              done |-> applied.done \cup {<<Sym("ql"), "ql">>},
                              hl_slept |-> applied.hl_slept]
          /\ idx' = idx
     ELSE Untracked("ql")
  /\ UNCHANGED <<symbols, selected_symbols, last_update, clock, now>>

QlPushPrice ==
  /\ pc["ql"] = "push_price"
  /\ stocks' = [stocks EXCEPT ![Sym("ql")] = PushPrice(@, res["ql"].price)]
  /\ pc' = [pc EXCEPT !["ql"] = "push_ts"]
  /\ UNCHANGED <<symbols, selected_symbols, storeLock, last_update, clock, idx, res, now, applied>>

QlPushTimestamp ==
  /\ pc["ql"] = "push_ts"
  /\ stocks' = [stocks EXCEPT ![Sym("ql")] = PushTimestamp(@, now)]
  /\ pc' = [pc EXCEPT !["ql"] = "evict"]
  /\ UNCHANGED <<symbols, selected_symbols, storeLock, last_update, clock, idx, res, now, applied>>

QlEvict ==
  /\ pc["ql"] = "evict"
  /\ stocks' = [stocks EXCEPT ![Sym("ql")] = Evict(@)]
  /\ pc' = [pc EXCEPT !["ql"] = "set_current"]
  /\ UNCHANGED <<symbols, selected_symbols, storeLock, last_update, clock, idx, res, now, applied>>

QlSetCurrent ==
  /\ pc["ql"] = "set_current"
  /\ stocks' = [stocks EXCEPT ![Sym("ql")] =
                  SetCurrent(@, res["ql"].price, res["ql"].change)]
  /\ pc' = [pc EXCEPT !["ql"] = "minmax"]
  /\ UNCHANGED <<symbols, selected_symbols, storeLock, last_update, clock, idx, res, now, applied>>

QlMinMax ==
  /\ pc["ql"] = "minmax"
  /\ stocks' = [stocks EXCEPT ![Sym("ql")] = RecomputeCurrentExtrema(@)]
  /\ Unlock("ql")
  /\ NextSymbol("ql")
  /\ UNCHANGED <<symbols, selected_symbols, last_update, clock, now, applied>>

\* if let Ok(mut lu) = last_update.lock(): the quote loop, holding nothing,
\* takes the mutex of last_update.
QlLockLu ==
  /\ pc["ql"] = "lu_lock"
  /\ LuCanLock
  /\ pc' = [pc EXCEPT !["ql"] = "lu"]
  /\ UNCHANGED <<symbols, selected_symbols, stocks, storeLock, last_update, clock, idx, res, now, applied>>

\* Mutant of QlLastUpdate: a pass that applied nothing leaves last_update.
QlLastUpdateIfApplied ==
  /\ pc["ql"] = "lu"
  /\ last_update' = IF \E sym \in DOMAIN stocks :
                          /\ stocks[sym].timestamps # << >>
                          /\ stocks[sym].timestamps[Len(stocks[sym].timestamps)] = now
                     THEN now
                     ELSE last_update
  /\ pc' = [pc EXCEPT !["ql"] = "sleep"]
  /\ UNCHANGED <<symbols, selected_symbols, stocks, storeLock, clock, idx, res, now, applied>>

\* *lu = now; the guard of last_update is dropped at the end of the block.
QlLastUpdate ==
  /\ pc["ql"] = "lu"
  /\ last_update' = now
  /\ pc' = [pc EXCEPT !["ql"] = "sleep"]
  /\ UNCHANGED <<symbols, selected_symbols, stocks, storeLock, clock, idx, res, now, applied>>

\* ------------------------- the history writers (bootstrap and history loop)
\* thread::sleep(3 s) of the second bootstrap thread returns.
BhWake ==
  /\ pc["bh"] = "sleep"
  /\ pc' = [pc EXCEPT !["bh"] = "fetch"]
  /\ UNCHANGED <<symbols, selected_symbols, stocks, storeLock, last_update, clock, idx, res, now, applied>>

\* thread::sleep(300 s) at the end of a pass of the history loop returns.
HlWake ==
  /\ pc["hl"] = "sleep"
  /\ idx' = [idx EXCEPT !["hl"] = 1]
  /\ pc' = [pc EXCEPT !["hl"] = "fetch"]
  /\ applied' = [applied EXCEPT !.hl_slept = TRUE]
  /\ UNCHANGED <<symbols, selected_symbols, stocks, storeLock, last_update, clock, res, now>>

\* stocks.lock() and lock.get_mut(symbol)
HistLock(t) ==
  /\ t \in {"bh", "hl"}
  /\ pc[t] = "lock"
  /\ CanLock(t)
  /\ stocks' = GetMut(stocks, Sym(t))
  /\ IF Sym(t) \in DOMAIN stocks'
     THEN /\ storeLock' = t
          /\ pc' = [pc EXCEPT ![t] = "replace"]
          /\ \E r \in OkOf(Fetch24hHistoricalData(Sym(t))) :
               /\ res' = [res EXCEPT ![t] = r]
               /\ applied' = [op |-> "history", by |-> t, sym |-> Sym(t),
                              prices |-> r.prices, times |-> r.times,
                              before |-> stocks',
                              done |-> applied.done \cup {<<Sym(t), t>>},
                              hl_slept |-> applied.hl_slept]
          /\ idx' = idx
     ELSE Untracked(t)
  /\ UNCHANGED <<symbols, selected_symbols, last_update, clock, now>>

HistReplace(t) ==
  /\ t \in {"bh", "hl"}
  /\ pc[t] = "replace"
  /\ stocks' = [stocks EXCEPT ![Sym(t)] = ReplaceHistory(@, res[t].prices, res[t].times)]
  /\ pc' = [pc EXCEPT ![t] = "extrema"]
  /\ UNCHANGED <<symbols, selected_symbols, storeLock, last_update, clock, idx, res, now, applied>>

HistExtrema(t) ==
  /\ t \in {"bh", "hl"}
  /\ pc[t] = "extrema"
  /\ stocks' = [stocks EXCEPT ![Sym(t)] = RecomputeH24Extrema(@, res[t].prices)]
  /\ pc' = [pc EXCEPT ![t] = "change24"]
  /\ UNCHANGED <<symbols, selected_symbols, storeLock, last_update, clock, idx, res, now, applied>>

HistChange24h(t) ==
  /\ t \in {"bh", "hl"}
  /\ pc[t] = "change24"
  /\ stocks' = [stocks EXCEPT ![Sym(t)] = RecomputeChange24h(@, res[t].prices)]
  /\ Unlock(t)
  /\ NextSymbol(t)
  /\ UNCHANGED <<symbols, selected_symbols, last_update, clock, now, applied>>

\* ---------------------------------------------------------- the render loop
\* let stocks_guard = app.stocks.lock().unwrap();
UiLock ==
  /\ pc["ui"] = "frame"
  /\ CanLock("ui")
  /\ storeLock' = "ui"
  /\ pc' = [pc EXCEPT !["ui"] = "draw"]
  /\ UNCHANGED <<symbols, selected_symbols, stocks, last_update, clock, idx, res, now, applied>>

\* draw_list_panel(&stocks_guard, ..); draw_charts_panel(&stocks_guard, ..)
UiDraw ==
  /\ pc["ui"] = "draw"
  /\ pc' = [pc EXCEPT !["ui"] = "status"]
  /\ UNCHANGED <<symbols, selected_symbols, stocks, storeLock, last_update, clock, idx, res, now, applied>>

\* Mutant of ToggleSelection: an unticked symbol is always ticked.
ToggleSelectionNoCap(selected, sym) ==
  IF sym \in selected THEN selected \ {sym} ELSE selected \cup {sym}

\* if contains(&sym) { remove(&sym) } else if len() < MAX_SELECTED { insert(sym) }
ToggleSelection(selected, sym) ==
  IF sym \in selected
  THEN selected \ {sym}
  ELSE IF Cardinality(selected) < MAX_SELECTED
       THEN selected \cup {sym}
       ELSE selected

\* A frame in which draw_list_panel reports a click on an entry of the list
\* that the store holds: the click is handled, then the charts are drawn.
UiClick ==
  /\ pc["ui"] = "draw"
  /\ \E i \in 1..Len(symbols) :
       /\ symbols[i] \in DOMAIN stocks
       /\ selected_symbols' = ToggleSelection(selected_symbols, symbols[i])
  /\ pc' = [pc EXCEPT !["ui"] = "status"]
  /\ UNCHANGED <<symbols, stocks, storeLock, last_update, clock, idx, res, now, applied>>

\* app.last_update.lock().unwrap(): the render loop, still holding the guard
\* of the store, takes the mutex of last_update.
UiLockLu ==
  /\ pc["ui"] = "status"
  /\ LuCanLock
  /\ pc' = [pc EXCEPT !["ui"] = "read_lu"]
  /\ UNCHANGED <<symbols, selected_symbols, stocks, storeLock, last_update, clock, idx, res, now, applied>>

\* Mutant of UiDrop: the guard outlives the frame.
UiNoDrop ==
  /\ pc["ui"] = "read_lu"
  /\ pc' = [pc EXCEPT !["ui"] = "frame"]
  /\ UNCHANGED <<symbols, selected_symbols, stocks, storeLock, last_update, clock, idx, res, now, applied>>

\* let last_up = *guard; the guard of last_update, a temporary, is dropped
\* with the statement; the status line is drawn; drop(stocks_guard).
UiDrop ==
  /\ pc["ui"] = "read_lu"
  /\ storeLock' = "free"
  /\ pc' = [pc EXCEPT !["ui"] = "frame"]
  /\ UNCHANGED <<symbols, selected_symbols, stocks, last_update, clock, idx, res, now, applied>>

\* ------------------------------------------------------- the specification
Next ==
  \/ FetchQuote("bq")
  \/ BqLock
  \/ BqSetCurrent
  \/ BqPushPrice
  \/ BqPushTimestamp
  \/ BqMinMax
  \/ QlWake
  \/ FetchQuote("ql")
  \/ QlLock
  \/ QlPushPrice
  \/ QlPushTimestamp
  \/ QlEvict
  \/ QlSetCurrent
  \/ QlMinMax
  \/ QlLockLu
  \/ QlLastUpdate
  \/ BhWake
  \/ HlWake
  \/ \E t \in {"bh", "hl"} : FetchHistory(t)
  \/ \E t \in {"bh", "hl"} : HistLock(t)
  \/ \E t \in {"bh", "hl"} : HistReplace(t)
  \/ \E t \in {"bh", "hl"} : HistExtrema(t)
  \/ \E t \in {"bh", "hl"} : HistChange24h(t)
  \/ UiLock
  \/ UiDraw
  \/ UiLockLu
  \/ UiDrop

Spec == Init /\ [][Next]_vars

\* The worker functions take the store and the list of symbols as arguments:
\* here they are handed a two-entry list, over a store that holds both entries
\* or only the second, and either the pair of initial_fetch or the two
\* periodic workers are spawned.
InitArgs ==
  \E keys \in {<<"AAPL">>, <<"MSFT", "AAPL">>} :
    \E started \in {{"bq", "bh"}, {"ql", "hl"}} :
      Spawned(keys, <<"MSFT", "AAPL">>, started)

SpecArgs == InitArgs /\ [][Next]_vars

\* ------------------------------------------------------ main, step by step
\* main has built the list and taken the lock of the empty store of
\* App::new(); no thread is spawned yet.
InitMain ==
  /\ symbols = <<"AAPL">>
  /\ selected_symbols = {}
  /\ stocks = [sym \in {} |-> NewStockData(sym)]
  /\ storeLock = "ui"
  /\ last_update = 0
  /\ clock = 0
  /\ pc = [t \in Threads |-> IF t = "ui" THEN "insert" ELSE "unspawned"]
  /\ idx = [t \in Writers |-> 1]
  /\ res = [t \in Writers |-> Err]
  /\ now = 0
  /\ applied = NoUpdate

\* Mutant of MainInsert: main goes on to spawn the workers with the store
\* still empty.
MainInsertNothing ==
  /\ pc["ui"] = "insert"
  /\ storeLock' = "free"
  /\ pc' = [pc EXCEPT !["ui"] = "spawn_initial"]
  /\ UNCHANGED <<symbols, selected_symbols, stocks, last_update, clock, idx, res, now, applied>>

\* One iteration of `for sym in &symbols { stocks.insert(sym.clone(), ..) }`;
\* after the last one the block ends and the guard is dropped.
MainInsert ==
  /\ pc["ui"] = "insert"
  /\ LET n == Cardinality(DOMAIN stocks) + 1
         sym == symbols[n]
     IN /\ stocks' = [k \in DOMAIN stocks \cup {sym} |->
                        IF k = sym THEN NewStockData(sym) ELSE stocks[k]]
        /\ IF n = Len(symbols)
           THEN /\ storeLock' = "free"
                /\ pc' = [pc EXCEPT !["ui"] = "spawn_initial"]
           ELSE UNCHANGED <<storeLock, pc>>
  /\ UNCHANGED <<symbols, selected_symbols, last_update, clock, idx, res, now, applied>>

\* initial_fetch(..): spawns the two bootstrap threads.
SpawnInitialFetch ==
  /\ pc["ui"] = "spawn_initial"
  /\ pc' = [pc EXCEPT !["bq"] = "fetch", !["bh"] = "sleep", !["ui"] = "spawn_update"]
  /\ UNCHANGED <<symbols, selected_symbols, stocks, storeLock, last_update, clock, idx, res, now, applied>>

\* start_update_worker(..): spawns the quote loop.
SpawnUpdateWorker ==
  /\ pc["ui"] = "spawn_update"
  /\ pc' = [pc EXCEPT !["ql"] = "sleep", !["ui"] = "spawn_24h"]
  /\ UNCHANGED <<symbols, selected_symbols, stocks, storeLock, last_update, clock, idx, res, now, applied>>

\* start_24h_update_worker(..): spawns the history loop; main enters its loop.
Spawn24hUpdateWorker ==
  /\ pc["ui"] = "spawn_24h"
  /\ pc' = [pc EXCEPT !["hl"] = "fetch", !["ui"] = "frame"]
  /\ UNCHANGED <<symbols, selected_symbols, stocks, storeLock, last_update, clock, idx, res, now, applied>>

NextMain ==
  \/ MainInsert
  \/ SpawnInitialFetch
  \/ SpawnUpdateWorker
  \/ Spawn24hUpdateWorker
  \/ Next

SpecMain == InitMain /\ [][NextMain]_vars

\* ------------------------------------------------------- the whole updates
\* The critical section of the quote loop, from lock to unlock.
QuoteLoopUpdate(s, price, change, at) ==
  RecomputeCurrentExtrema(
    SetCurrent(Evict(PushTimestamp(PushPrice(s, price), at)), price, change))

\* The critical section of the bootstrap quote thread, from lock to unlock.
BootstrapQuoteUpdate(s, price, ch, at) ==
  RecomputeCurrentExtrema(
    PushTimestamp(PushPrice(SetCurrent(s, price, ch), price), at))

\* The critical section of a history writer, from lock to unlock.
HistoryUpdate(s, prices, times) ==
  RecomputeChange24h(
    RecomputeH24Extrema(ReplaceHistory(s, prices, times), prices), prices)

\* The store after the update entered last, taken as a whole.
Committed ==
  CASE applied.op = "none" ->
         [sym \in DOMAIN stocks |-> NewStockData(sym)]
    [] applied.op = "untracked" ->
         applied.before
    [] applied.op = "quote" /\ applied.by = "ql" ->
         [applied.before EXCEPT ![applied.sym] =
            QuoteLoopUpdate(@, applied.price, applied.change, applied.at)]
    [] applied.op = "quote" /\ applied.by = "bq" ->
         [applied.before EXCEPT ![applied.sym] =
            BootstrapQuoteUpdate(@, applied.price, applied.change, applied.at)]
    [] applied.op = "history" ->
         [applied.before EXCEPT ![applied.sym] =
            HistoryUpdate(@, applied.prices, applied.times)]

\* ---------------------------------------------------------------- properties
TypeOK ==
  /\ storeLock \in Threads \cup {"free"}
  /\ clock \in 0..MaxClock
  /\ DOMAIN stocks = {symbols[i] : i \in 1..Len(symbols)}

\* No writer is inside a critical section of the store.
Quiescent == storeLock \notin Writers

\* A quote (a history) update has been applied last, and is complete.
QuoteApplied == Quiescent /\ applied.op = "quote"

HistoryApplied == Quiescent /\ applied.op = "history"

\* The symbol's StockData after, and before, the update applied last.
After == stocks[applied.sym]

Before == applied.before[applied.sym]

Range(seq) == {seq[i] : i \in 1..Len(seq)}

MinOf(seq) == CHOOSE m \in Range(seq) : \A x \in Range(seq) : m <= x

MaxOf(seq) == CHOOSE m \in Range(seq) : \A x \in Range(seq) : m >= x

\* C1: whenever no writer is in its critical section, every tracked symbol
\* holds at most WindowSize (60 in the source) recent prices.
C1_PricesWithinWindow ==
  Quiescent => \A sym \in DOMAIN stocks : Len(stocks[sym].prices) <= WindowSize

\* C2: whenever no writer holds the store lock, prices and timestamps of
\* every tracked symbol have the same length.
C2_ParallelLengths ==
  Quiescent =>
    \A sym \in DOMAIN stocks :
      Len(stocks[sym].prices) = Len(stocks[sym].timestamps)

\* C2 witness: a quote-loop update whose eviction acted on both sequences.
C2_Witness ==
  /\ QuoteApplied
  /\ applied.by = "ql"
  /\ Len(Before.prices) = WindowSize
  /\ Len(After.prices) = WindowSize
  /\ Len(After.timestamps) = WindowSize

\* C3: after any applied quote, current_min and current_max are the minimum
\* and the maximum of the symbol's prices, and the sentinels while it is empty.
C3_CurrentExtrema ==
  Quiescent =>
    \A sym \in DOMAIN stocks :
      LET s == stocks[sym]
      IN  IF s.prices = << >>
          THEN s.current_min = INFINITY /\ s.current_max = NEG_INFINITY
          ELSE s.current_min = MinOf(s.prices) /\ s.current_max = MaxOf(s.prices)

\* C3 witness: a quote-loop update evicted the only minimum of the window.
C3_Witness ==
  /\ QuoteApplied
  /\ applied.by = "ql"
  /\ Len(Before.prices) >= WindowSize
  /\ After.current_min > Before.current_min

C5_HistoryReplaced ==
  HistoryApplied =>
    /\ After.prices_24h_ago = applied.prices
    /\ After.timestamps_24h_ago = applied.times

\* C5 witness: a non-empty window was replaced by an empty series.
C5_Witness ==
  /\ HistoryApplied
  /\ Before.prices_24h_ago # << >>
  /\ applied.prices = << >>
  /\ After.prices_24h_ago = << >>

\* C6: after a history update h24_min and h24_max are the minimum and the
\* maximum of the now-current history window, and the sentinels when it is
\* empty.
C6_HistoryExtrema ==
  HistoryApplied =>
    IF After.prices_24h_ago = << >>
    THEN After.h24_min = INFINITY /\ After.h24_max = NEG_INFINITY
    ELSE /\ After.h24_min = MinOf(After.prices_24h_ago)
         /\ After.h24_max = MaxOf(After.prices_24h_ago)

\* C7: after a quote applied to a symbol whose history window starts with a
\* positive price, change_24h_percent is the change of the new current_price
\* against that first price.
C7_QuoteRecomputesChange24h ==
  (QuoteApplied /\ After.prices_24h_ago # << >> /\ After.prices_24h_ago[1] > 0) =>
    After.change_24h_percent =
      Change24h(After.current_price, After.prices_24h_ago[1])

\* C8 as stated: after a history series that starts with a positive price,
\* change_24h_percent is the change of current_price against that price,
\* whatever current_price is.
C8_AnyCurrentPrice ==
  (HistoryApplied /\ applied.prices # << >> /\ applied.prices[1] > 0) =>
    After.change_24h_percent = Change24h(After.current_price, applied.prices[1])

\* C8 as amended: the same, provided current_price is positive; with a
\* current_price of 0 or less change_24h_percent keeps its value.
C8_PositiveCurrentPrice ==
  (HistoryApplied /\ applied.prices # << >> /\ applied.prices[1] > 0) =>
    IF After.current_price > 0
    THEN After.change_24h_percent =
           Change24h(After.current_price, applied.prices[1])
    ELSE After.change_24h_percent = Before.change_24h_percent

\* C8 witness: the change was recomputed to a new value from a positive price.
C8_Witness ==
  /\ HistoryApplied
  /\ applied.prices # << >>
  /\ applied.prices[1] > 0
  /\ After.current_price > 0
  /\ After.change_24h_percent # Before.change_24h_percent
  /\ After.change_24h_percent = -50

\* C9: a history series that is empty or starts with a price of 0 or less
\* leaves change_24h_percent at the value it had.
C9_NotComputableKeepsChange ==
  (HistoryApplied /\ (applied.prices = << >> \/ applied.prices[1] <= 0)) =>
    After.change_24h_percent = Before.change_24h_percent

\* C9 witness: a non-zero change survived a series that starts with 0 while a
\* positive current_price was known.
C9_Witness ==
  /\ HistoryApplied
  /\ applied.prices # << >>
  /\ applied.prices[1] <= 0
  /\ After.current_price > 0
  /\ Before.change_24h_percent # 0
  /\ After.change_24h_percent = Before.change_24h_percent

\* C10: whenever the render loop holds the store, or nobody does, the store
\* is the result of whole updates: the store as the update entered last found
\* it (itself such a result), with that update applied from its first
\* statement to its last.
C10_WholeUpdates ==
  Quiescent => stocks = Committed

\* C10 witness: the render loop reads the result of an update while two
\* writers wait for the store with their fetches done.
C10_Witness ==
  /\ storeLock = "ui"
  /\ pc["ui"] = "draw"
  /\ applied.op = "quote"
  /\ pc["ql"] = "lock"
  /\ pc["hl"] = "lock"
  /\ stocks # applied.before

\* ------------------------------------------------ the loops running forever
\* The two periodic workers and the render loop, with a list whose first entry
\* the store does not hold.
InitLoops == Spawned(<<"MSFT">>, <<"AAPL", "MSFT">>, {"ql", "hl"})

\* The steps of the quote loop, of the history loop and of the render loop
\* other than taking a lock.
QlStep ==
  \/ QlWake
  \/ QlWakeLate
  \/ FetchQuote("ql")
  \/ QlPushPrice
  \/ QlPushTimestamp
  \/ QlEvict
  \/ QlSetCurrent
  \/ QlMinMax
  \/ QlLastUpdate

HlStep ==
  \/ HlWake
  \/ FetchHistory("hl")
  \/ HistReplace("hl")
  \/ HistExtrema("hl")
  \/ HistChange24h("hl")

UiStep == UiDraw \/ UiDrop

NextLoops ==
  \/ QlStep
  \/ QlLock
  \/ QlLockLu
  \/ HlStep
  \/ HistLock("hl")
  \/ UiStep
  \/ UiLock
  \/ UiLockLu

\* Every thread that can take a step is scheduled in the end: a sleep ends, a
\* fetch returns (each request has a 10 s timeout), a statement executes. A
\* thread blocked in lock() gets the mutex in the end, provided the mutex is
\* free again and again.
FairLoops ==
  /\ WF_vars(QlStep)
  /\ WF_vars(HlStep)
  /\ WF_vars(UiStep)
  /\ SF_vars(QlLock)
  /\ SF_vars(QlLockLu)
  /\ SF_vars(HistLock("hl"))
  /\ SF_vars(UiLock)
  /\ SF_vars(UiLockLu)

SpecLoops == InitLoops /\ [][NextLoops]_vars /\ FairLoops

\* --------------------------------------------------- clicks on the list
\* The render loop with clicks, next to the quote loop, over a list of three
\* tracked symbols.
InitClicks == Spawned(<<"MSFT", "AAPL", "NVDA">>, <<"MSFT", "AAPL", "NVDA">>, {"ql"})

NextClicks ==
  \/ QlWake
  \/ FetchQuote("ql")
  \/ QlLock
  \/ QlPushPrice
  \/ QlPushTimestamp
  \/ QlEvict
  \/ QlSetCurrent
  \/ QlMinMax
  \/ QlLockLu
  \/ QlLastUpdate
  \/ UiLock
  \/ UiDraw
  \/ UiClick
  \/ UiLockLu
  \/ UiDrop

SpecClicks == InitClicks /\ [][NextClicks]_vars

\* C11: while the render loop works on the data it read for a frame, a worker
\* whose fetch has returned can enter the store.
C11_ReaderDoesNotBlockWriters ==
  \A t \in Writers :
    (pc["ui"] \in {"draw", "status"} /\ pc[t] = "lock") => CanLock(t)

\* C12: a worker whose fetch returned data for a symbol the store does not
\* hold leaves the store as it is, keys included, drops the lock and goes on
\* to the next symbol of its pass (or to what follows the pass).
C12_UntrackedIsNoOp ==
  [][\A t \in Writers :
       (pc[t] = "lock" /\ pc'[t] # "lock" /\ Sym(t) \notin DOMAIN stocks) =>
         /\ stocks' = stocks
         /\ storeLock' = "free"
         /\ idx'[t] = idx[t] + 1
         /\ pc'[t] = IF idx[t] < Len(symbols) THEN "fetch" ELSE AfterLoop(t)]_vars

\* A worker has skipped the untracked first symbol and is at the second.
C12_Witness ==
  /\ applied.op = "untracked"
  /\ applied.sym = symbols[1]
  /\ applied.sym \notin DOMAIN stocks
  /\ idx[applied.by] = 2
  /\ pc[applied.by] = "fetch"

AppliedTo(sym) == {t \in Writers : <<sym, t>> \in applied.done}

\* C14: as long as no fetch of a symbol has succeeded, whoever reads the store
\* finds the symbol with current_price, change_percent and change_24h_percent
\* at 0, both price windows and both timestamp windows empty, minima at
\* +infinity and maxima at -infinity.
C14_NeverFetchedIsEmpty ==
  \A sym \in DOMAIN stocks :
    AppliedTo(sym) = {} =>
      /\ stocks[sym].current_price = 0
      /\ stocks[sym].change_percent = 0
      /\ stocks[sym].change_24h_percent = 0
      /\ stocks[sym].prices = << >>
      /\ stocks[sym].timestamps = << >>
      /\ stocks[sym].prices_24h_ago = << >>
      /\ stocks[sym].timestamps_24h_ago = << >>
      /\ stocks[sym].current_min = INFINITY
      /\ stocks[sym].h24_min = INFINITY
      /\ stocks[sym].current_max = NEG_INFINITY
      /\ stocks[sym].h24_max = NEG_INFINITY

\* Both bootstrap passes and a pass of each loop are over, every fetch has
\* failed, and the render loop is drawing the symbol.
C14_Witness ==
  /\ pc["ui"] = "draw"
  /\ pc["bq"] = "done"
  /\ pc["bh"] = "done"
  /\ pc["ql"] = "sleep"
  /\ pc["hl"] = "sleep"
  /\ last_update # 0
  /\ \E sym \in DOMAIN stocks : AppliedTo(sym) = {}

\* C15: a history update of the bootstrap is applied only when the quote
\* pass of the bootstrap has been through every symbol.
C15_BootstrapHistoryAfterQuotes ==
  (\E sym \in DOMAIN stocks : "bh" \in AppliedTo(sym)) => pc["bq"] = "done"

\* The fields a quote update writes.
QuoteFields(s) ==
  <<s.current_price, s.change_percent, s.prices, s.timestamps,
    s.current_min, s.current_max>>

\* C16: once the bootstrap has applied a quote (p, c) to a symbol, and until
\* the quote loop applies one to it, the symbol has current_price = p,
\* change_percent = c, prices = [p], one timestamp and current_min =
\* current_max = p: it is so when the bootstrap leaves its critical section,
\* it is so of the price in every later state, and no step outside a quote
\* update changes any of these fields.
C16_BootstrapQuoteState ==
  /\ [](\A sym \in DOMAIN stocks :
          (storeLock # "bq" /\ "bq" \in AppliedTo(sym) /\ "ql" \notin AppliedTo(sym)) =>
            /\ stocks[sym].prices = <<stocks[sym].current_price>>
            /\ Len(stocks[sym].timestamps) = 1
            /\ stocks[sym].current_min = stocks[sym].current_price
            /\ stocks[sym].current_max = stocks[sym].current_price)
  /\ []((QuoteApplied /\ applied.by = "bq" /\ "ql" \notin AppliedTo(applied.sym)) =>
          /\ After.current_price = applied.price
          /\ After.change_percent = applied.change)
  /\ [][\A sym \in DOMAIN stocks :
          storeLock \notin {"bq", "ql"} =>
            QuoteFields(stocks'[sym]) = QuoteFields(stocks[sym])]_vars

\* The render loop draws a symbol that has the bootstrap quote (2, +100%)
\* and, applied after it, a history, but nothing from the quote loop yet.
C16_Witness ==
  /\ pc["ui"] = "draw"
  /\ \E sym \in DOMAIN stocks :
       /\ AppliedTo(sym) = {"bq", "bh"}
       /\ applied.op = "history"
       /\ stocks[sym].current_price = 2
       /\ stocks[sym].change_percent = 100
       /\ stocks[sym].prices = <<2>>
       /\ stocks[sym].prices_24h_ago # << >>

\* C17: last_update changes only in the step of the quote loop that follows
\* the for loop of a pass, with every symbol of the list behind it; it takes the
\* time the pass read as it started, and the loop then sleeps, so that a pass
\* writes it once. No step of another thread changes it.
C17_LastUpdateOncePerPass ==
  [][last_update' # last_update =>
       /\ pc["ql"] = "lu"
       /\ idx["ql"] = Len(symbols) + 1
       /\ last_update' = now
       /\ pc'["ql"] = "sleep"
       /\ \A t \in Threads \ {"ql"} : pc'[t] = pc[t]]_vars

\* The quote loop has written last_update at the end of its second pass over
\* a list of two symbols.
C17_Witness ==
  /\ Len(symbols) = 2
  /\ pc["ql"] = "sleep"
  /\ idx["ql"] = 3
  /\ now = 2
  /\ last_update = 2

\* C18: no step adds a key to the store or removes one, and every entry
\* carries, in its symbol field, the key it is stored under.
C18_KeysFixed ==
  /\ [](\A k \in DOMAIN stocks : stocks[k].symbol = k)
  /\ [][DOMAIN stocks' = DOMAIN stocks]_vars

\* Both bootstrap passes are over: each has skipped the entry of its list
\* that the store does not hold and has updated the one it holds.
C18_Witness ==
  /\ pc["bq"] = "done"
  /\ pc["bh"] = "done"
  /\ DOMAIN stocks = {symbols[2]}
  /\ symbols[1] # symbols[2]
  /\ AppliedTo(symbols[2]) = {"bq", "bh"}
  /\ applied.op = "history"

C21_HistoryLoopSleepsFirst ==
  (\E sym \in DOMAIN stocks : "hl" \in AppliedTo(sym)) => applied.hl_slept

\* C22: whenever no writer is in its critical section, the timestamps of
\* every tracked symbol are in non-decreasing order from oldest to newest.
C22_TimestampsChronological ==
  Quiescent =>
    \A sym \in DOMAIN stocks :
      \A i, j \in 1..Len(stocks[sym].timestamps) :
        i < j => stocks[sym].timestamps[i] <= stocks[sym].timestamps[j]

\* Where a worker is when it is not inside the update of a symbol: asleep,
\* in a fetch, waiting for the store, at the write of last_update, or finished.
Outside == {"sleep", "fetch", "lock", "lu_lock", "lu", "done", "unspawned"}

\* C23: a worker that sleeps, fetches, waits for the store, writes last_update
\* or has finished does not hold the store lock; and a worker that holds it
\* stays at the same symbol until it releases it.
C23_LockOnlyAroundOneUpdate ==
  /\ [](\A t \in Writers : pc[t] \in Outside => storeLock # t)
  /\ [][\A t \in Writers :
          (storeLock = t /\ storeLock' = t) => idx'[t] = idx[t]]_vars

\* The quote loop has applied the quote of the last symbol of its pass and
\* is about to write last_update, with the store free and the history loop
\* in a fetch.
C23_Witness ==
  /\ pc["ql"] = "lu"
  /\ applied.op = "quote"
  /\ applied.by = "ql"
  /\ storeLock = "free"
  /\ pc["hl"] = "fetch"

\* C24: in the step that spawns the first worker, the store is free and
\* holds, for every symbol of the list and for nothing else, the empty
\* StockData; and in every state with a worker spawned the store has an entry
\* for every symbol of the list.
C24_InitializedBeforeSpawn ==
  /\ [][((\A t \in Writers : pc[t] = "unspawned") /\
         (\E t \in Writers : pc'[t] # "unspawned")) =>
           /\ stocks = [sym \in Range(symbols) |-> NewStockData(sym)]
           /\ storeLock = "free"]_vars
  /\ []((\E t \in Writers : pc[t] # "unspawned") => DOMAIN stocks = Range(symbols))

\* The bootstrap threads have just been spawned, the quote loop and the
\* history loop not yet.
C24_Witness ==
  /\ pc["ui"] = "spawn_update"
  /\ pc["bq"] = "fetch"
  /\ pc["bh"] = "sleep"
  /\ pc["ql"] = "unspawned"
  /\ stocks = [sym \in Range(symbols) |-> NewStockData(sym)]

\* C25: whenever no writer is in its critical section, a symbol with a
\* non-empty price window has its newest price as current_price, and
\* current_price lies between current_min and current_max.
C25_CurrentPriceIsNewest ==
  Quiescent =>
    \A sym \in DOMAIN stocks :
      stocks[sym].prices # << >> =>
        /\ stocks[sym].current_price = stocks[sym].prices[Len(stocks[sym].prices)]
        /\ stocks[sym].current_min <= stocks[sym].current_price
        /\ stocks[sym].current_price <= stocks[sym].current_max

\* The bootstrap has applied its quote after the quote loop applied a
\* different one.
C25_Witness ==
  /\ QuoteApplied
  /\ applied.by = "bq"
  /\ "ql" \in AppliedTo(applied.sym)
  /\ Len(After.prices) = 2
  /\ After.prices[1] # After.prices[2]
  /\ After.current_price = applied.price

\* The holder of the mutex of last_update.
LuHolder ==
  IF pc["ql"] = "lu" THEN "ql" ELSE IF pc["ui"] = "read_lu" THEN "ui" ELSE "free"

\* The thread that holds the lock t is blocked on, "none" if t is not
\* blocked in a lock() call.
BlockedBy(t) ==
  CASE t \in Writers /\ pc[t] = "lock" /\ storeLock # "free" -> storeLock
    [] t = "ui" /\ pc[t] = "frame" /\ storeLock # "free" -> storeLock
    [] t = "ql" /\ pc[t] = "lu_lock" /\ LuHolder # "free" -> LuHolder
    [] t = "ui" /\ pc[t] = "status" /\ LuHolder # "free" -> LuHolder
    [] OTHER -> "none"

\* C26: no worker is at the mutex of last_update, waiting for it or holding
\* it, while it holds the store; that mutex has one holder at a time; and
\* whoever is blocked in a lock() call waits for a thread that is not blocked,
\* or for one that waits for a thread that is not blocked: no state has a
\* cycle of threads waiting for each other.
C26_NoDeadlock ==
  /\ \A t \in Writers : storeLock = t => pc[t] \notin {"lu_lock", "lu"}
  /\ ~(pc["ql"] = "lu" /\ pc["ui"] = "read_lu")
  /\ \A t \in Threads :
       BlockedBy(t) # "none" =>
         \/ BlockedBy(BlockedBy(t)) = "none"
         \/ BlockedBy(BlockedBy(BlockedBy(t))) = "none"

\* The history loop waits for the store, which the render loop holds while
\* it waits for the mutex of last_update, which the quote loop holds.
C26_Witness ==
  /\ BlockedBy("hl") = "ui"
  /\ BlockedBy("ui") = "ql"
  /\ BlockedBy("ql") = "none"
  /\ storeLock = "ui"

\* C27: the time of a pass of the quote loop is read when its sleep returns
\* and stays the same until the next sleep returns; every timestamp the quote
\* loop appends is that time; when the loop sleeps, last_update is the time
\* of the pass just over, whatever its fetches returned; and last_update
\* never decreases.
C27_OneTimePerPass ==
  /\ [][now' # now => (pc["ql"] = "sleep" /\ pc'["ql"] = "fetch" /\ now' >= now)]_vars
  /\ [][\A sym \in DOMAIN stocks :
          (storeLock = "ql" /\
           Len(stocks'[sym].timestamps) > Len(stocks[sym].timestamps)) =>
             stocks'[sym].timestamps = Append(stocks[sym].timestamps, now)]_vars
  /\ [](pc["ql"] = "sleep" => last_update = now)
  /\ [][last_update' >= last_update]_vars

\* A pass of the quote loop over two tracked symbols has given both the time
\* of the pass, and a later pass in which every fetch failed has moved
\* last_update on to its own time.
C27_Witness ==
  /\ pc["ql"] = "sleep"
  /\ Len(symbols) = 2
  /\ \A i \in 1..2 : symbols[i] \in DOMAIN stocks /\ stocks[symbols[i]].timestamps = <<1>>
  /\ now = 2
  /\ last_update = 2

\* The fields a history update writes.
HistoryFields(s) ==
  <<s.prices_24h_ago, s.timestamps_24h_ago, s.h24_min, s.h24_max,
    s.change_24h_percent>>

\* C28: a step taken while a quote writer is in its critical section leaves
\* the five history fields of every symbol as they are; a step taken while a
\* history writer is in its critical section leaves the six quote fields of
\* every symbol as they are; and a step changes no symbol other than the one
\* the writer in the critical section is at.
C28_DisjointFields ==
  [][\A sym \in DOMAIN stocks :
       /\ storeLock \in {"bq", "ql"} =>
            HistoryFields(stocks'[sym]) = HistoryFields(stocks[sym])
       /\ storeLock \in {"bh", "hl"} =>
            QuoteFields(stocks'[sym]) = QuoteFields(stocks[sym])
       /\ (storeLock \in Writers /\ sym # Sym(storeLock)) =>
            stocks'[sym] = stocks[sym]
       /\ storeLock \notin Writers => stocks'[sym] = stocks[sym]]_vars

\* Of two tracked symbols, the first has a history and no quote, the second
\* a quote from the quote loop and no history.
C28_Witness ==
  /\ Quiescent
  /\ Len(symbols) = 2
  /\ DOMAIN stocks = {symbols[1], symbols[2]}
  /\ AppliedTo(symbols[1]) = {"hl"}
  /\ AppliedTo(symbols[2]) = {"ql"}
  /\ stocks[symbols[1]].prices_24h_ago # << >>
  /\ QuoteFields(stocks[symbols[1]]) = QuoteFields(NewStockData(symbols[1]))
  /\ stocks[symbols[2]].prices # << >>
  /\ HistoryFields(stocks[symbols[2]]) = HistoryFields(NewStockData(symbols[2]))

\* C29: whenever no writer is in its critical section, the two sequences of
\* the history window of every tracked symbol have the same length.
C29_HistoryParallelLengths ==
  Quiescent =>
    \A sym \in DOMAIN stocks :
      Len(stocks[sym].prices_24h_ago) = Len(stocks[sym].timestamps_24h_ago)

\* The render loop draws a history parsed from a response whose arrays hold
\* nulls at different places.
C29_Witness ==
  /\ pc["ui"] = "draw"
  /\ HistoryApplied
  /\ applied.times = <<20, 21>>
  /\ After.prices_24h_ago = <<2, 1>>
  /\ After.timestamps_24h_ago = <<20, 21>>

\* C30: at most MAX_SELECTED symbols are ticked, all of them symbols of the
\* list; a click on a ticked symbol unticks it, a click on an unticked one
\* ticks it while fewer than MAX_SELECTED are ticked and otherwise changes
\* nothing; and the selection changes only in the step of the render loop
\* that handles a click, by exactly one symbol.
C30_SelectionCapped ==
  /\ [](/\ Cardinality(selected_symbols) <= MAX_SELECTED
        /\ selected_symbols \subseteq Range(symbols)
        /\ \A sym \in Range(symbols) :
             ToggleSelection(selected_symbols, sym) =
               IF sym \in selected_symbols
               THEN selected_symbols \ {sym}
               ELSE IF Cardinality(selected_symbols) < MAX_SELECTED
                    THEN selected_symbols \cup {sym}
                    ELSE selected_symbols)
  /\ [][selected_symbols' # selected_symbols =>
          /\ pc["ui"] = "draw"
          /\ pc'["ui"] = "status"
          /\ stocks' = stocks
          /\ \E sym \in Range(symbols) :
               \/ sym \in selected_symbols /\ selected_symbols' = selected_symbols \ {sym}
               \/ /\ sym \notin selected_symbols
                  /\ Cardinality(selected_symbols) < MAX_SELECTED
                  /\ selected_symbols' = selected_symbols \cup {sym}]_vars

\* MAX_SELECTED symbols are ticked, a third one of the list is not, and the
\* quote loop has meanwhile updated a ticked symbol.
C30_Witness ==
  /\ Cardinality(selected_symbols) = MAX_SELECTED
  /\ Range(symbols) \ selected_symbols # {}
  /\ QuoteApplied
  /\ applied.sym \in selected_symbols
  /\ pc["ui"] = "draw"

====
